---- MODULE Spec2Model ----
(***************************************************************************)
(* Model of src/connectors/current-refined-values/                         *)
(* connectCurrentRefinedValues.js: the widget factory, its init and render *)
(* passes, the refinement sorting and filtering, and the clear operations.  *)
(*                                                                         *)
(* A JavaScript string that is only compared for equality (an attribute    *)
(* name, a refinement type, an operator) is a TLA+ string.  A refinement's  *)
(* name, which the comparator orders with <, is the sequence of its UTF-16 *)
(* code units.  A search state is the list of its active refinements in    *)
(* the order the state collaborator reports them.                          *)
(***************************************************************************)
EXTENDS Integers, Sequences, FiniteSets, TLC

VARIABLES
  widgetParams,   \* the options object handed to the widget factory
  widget,         \* the factory's outcome and the closure it captured
  helperState,    \* helper.state of every helper the host owns
  cached,         \* this._clearRefinementsAndSearch of the widget instance
  view,           \* the arguments of the last call of the render callback
  lastOp,         \* what the last handler did: helper calls, callbacks, error
  initHelper,     \* the helper the host gave to init (history)
  fnArgs,         \* arguments of a direct call of one of the pure functions
  fnResult        \* result of that call

vars == <<widgetParams, widget, helperState, cached, view, lastOp, initHelper,
          fnArgs, fnResult>>

(***************************************************************************)
(* Bounds of the model.                                                    *)
(***************************************************************************)
MaxRefs == 2     \* active refinements of a helper state in the widget runs
MaxRaw == 3      \* length of the raw refinement list in the direct calls
MaxAttrs == 2    \* entries of the configured attributes array

(***************************************************************************)
(* Strings.                                                                *)
(***************************************************************************)
\* code units of "1" and "2"
Names == {<<49>>, <<49, 50>>, <<50>>}

AttributeNameSet == {"a", "b", "c"}

\* a < b on two JavaScript strings: code unit by code unit, a proper prefix first
RECURSIVE StringLess(_, _)
StringLess(a, b) ==
  IF b = <<>> THEN FALSE
  ELSE IF a = <<>> THEN TRUE
  ELSE IF Head(a) = Head(b) THEN StringLess(Tail(a), Tail(b))
  ELSE Head(a) < Head(b)

\* `${value}` of a non-negative integer: its decimal digits as code units
RECURSIVE NumberToString(_)
NumberToString(n) ==
  IF n < 10 THEN <<48 + n>>
  ELSE NumberToString(n \div 10) \o <<48 + (n % 10)>>

(***************************************************************************)
(* Refinements.  A numeric refinement carries operator and numericValue,   *)
(* the other kinds do not have these fields.                               *)
(***************************************************************************)
Refinement(type, attributeName, name) ==
  [type |-> type, attributeName |-> attributeName, name |-> name]

NumericRefinement(attributeName, operator, value) ==
  [type |-> "numeric", attributeName |-> attributeName,
   name |-> NumberToString(value), operator |-> operator, numericValue |-> value]

TagRefinement(name) == Refinement("tag", "_tags", name)

RefinementTypes == {"facet", "disjunctive", "hierarchical", "exclude", "numeric", "tag"}

\* Array.prototype.indexOf: 0-based position of the first strictly equal element, or -1
indexOf(array, value) ==
  IF \E i \in 1..Len(array) : array[i] = value
  THEN (CHOOSE i \in 1..Len(array) :
          array[i] = value /\ \A j \in 1..(i - 1) : array[j] # value) - 1
  ELSE -1

\* lodash isEmpty on an array
isEmpty(array) == Len(array) = 0

(***************************************************************************)
(* The state collaborator (algoliasearch-helper SearchParameters) and the  *)
(* helpers of lib/utils.js.  Every operation returns a new state.          *)
(***************************************************************************)
\* getRefinements(results, state): the raw list of active refinements
getRefinements(results, state) == state

removeFacetRefinement(state, attributeName, name) ==
  SelectSeq(state, LAMBDA r :
    ~(r.type = "facet" /\ r.attributeName = attributeName /\ r.name = name))

removeDisjunctiveFacetRefinement(state, attributeName, name) ==
  SelectSeq(state, LAMBDA r :
    ~(r.type = "disjunctive" /\ r.attributeName = attributeName /\ r.name = name))

removeExcludeRefinement(state, attributeName, name) ==
  SelectSeq(state, LAMBDA r :
    ~(r.type = "exclude" /\ r.attributeName = attributeName /\ r.name = name))

removeNumericRefinement(state, attributeName, operator, value) ==
  SelectSeq(state, LAMBDA r :
    ~(r.type = "numeric" /\ r.attributeName = attributeName
      /\ r.operator = operator /\ r.numericValue = value))

removeTagRefinement(state, name) ==
  SelectSeq(state, LAMBDA r : ~(r.type = "tag" /\ r.name = name))

\* state.clearRefinements(attributeName): every facet, exclude, disjunctive,
\* hierarchical and numeric refinement of the attribute
clearRefinements(state, attributeName) ==
  SelectSeq(state, LAMBDA r : ~(r.type # "tag" /\ r.attributeName = attributeName))

\* state.clearRefinements(): the same for every attribute
clearAllRefinements(state) == SelectSeq(state, LAMBDA r : r.type = "tag")

clearTags(state) == SelectSeq(state, LAMBDA r : r.type # "tag")

\* lib/utils.js clearRefinementsFromState(state, attributeNames)
RECURSIVE clearEach(_, _)
clearEach(state, attributeNames) ==
  IF attributeNames = <<>> THEN state
  ELSE clearEach(IF Head(attributeNames) = "_tags"
                 THEN clearTags(state)
                 ELSE clearRefinements(state, Head(attributeNames)),
                 Tail(attributeNames))

clearRefinementsFromState(state, attributeNames) ==
  IF isEmpty(attributeNames)
  THEN clearAllRefinements(clearTags(state))
  ELSE clearEach(state, attributeNames)

\* createURL(state): a pure function of the state, distinct states give distinct URLs
createURL(state) == <<"url", state>>

(***************************************************************************)
(* getRestrictedIndexForSort, compareRefinements, getFilteredRefinements.  *)
(***************************************************************************)
\* variant: the index of an unconfigured attribute without attributeNames.length
getRestrictedIndexForSortNoOffset(attributeNames, otherAttributeNames, attributeName) ==
  LET idx == indexOf(attributeNames, attributeName)
  IN  IF idx # -1 THEN idx ELSE indexOf(otherAttributeNames, attributeName)

\* variant: lastIndexOf in place of indexOf on otherAttributeNames
getRestrictedIndexForSortLast(attributeNames, otherAttributeNames, attributeName) ==
  LET idx == indexOf(attributeNames, attributeName)
      last == IF \E i \in 1..Len(otherAttributeNames) :
                   otherAttributeNames[i] = attributeName
              THEN (CHOOSE i \in 1..Len(otherAttributeNames) :
                      /\ otherAttributeNames[i] = attributeName
                      /\ \A j \in (i + 1)..Len(otherAttributeNames) :
                           otherAttributeNames[j] # attributeName) - 1
              ELSE -1
  IN  IF idx # -1 THEN idx ELSE Len(attributeNames) + last

getRestrictedIndexForSort(attributeNames, otherAttributeNames, attributeName) ==
  LET idx == indexOf(attributeNames, attributeName)
  IN  IF idx # -1
      THEN idx
      ELSE Len(attributeNames) + indexOf(otherAttributeNames, attributeName)

\* variant: names compared as numbers would be, the shorter first
compareRefinementsByLength(attributeNames, otherAttributeNames, a, b) ==
  LET idxa == getRestrictedIndexForSort(attributeNames, otherAttributeNames, a.attributeName)
      idxb == getRestrictedIndexForSort(attributeNames, otherAttributeNames, b.attributeName)
  IN  IF idxa = idxb
      THEN IF a.name = b.name THEN 0
           ELSE IF Len(a.name) < Len(b.name)
                   \/ (Len(a.name) = Len(b.name) /\ StringLess(a.name, b.name))
                THEN -1 ELSE 1
      ELSE IF idxa < idxb THEN -1 ELSE 1

compareRefinements(attributeNames, otherAttributeNames, a, b) ==
  LET idxa == getRestrictedIndexForSort(attributeNames, otherAttributeNames, a.attributeName)
      idxb == getRestrictedIndexForSort(attributeNames, otherAttributeNames, b.attributeName)
  IN  IF idxa = idxb
      THEN IF a.name = b.name THEN 0
           ELSE IF StringLess(a.name, b.name) THEN -1 ELSE 1
      ELSE IF idxa < idxb THEN -1 ELSE 1

\* Array.prototype.sort with the bound comparator; the sort is stable (ES2019)
RECURSIVE insertSorted(_, _, _, _)
insertSorted(sorted, x, attributeNames, otherAttributeNames) ==
  IF sorted = <<>> THEN <<x>>
  ELSE LET last == sorted[Len(sorted)]
       IN  IF compareRefinements(attributeNames, otherAttributeNames, last, x) <= 0
           THEN Append(sorted, x)
           ELSE Append(insertSorted(SubSeq(sorted, 1, Len(sorted) - 1), x,
                                    attributeNames, otherAttributeNames), last)

RECURSIVE sortFrom(_, _, _, _)
sortFrom(sorted, rest, attributeNames, otherAttributeNames) ==
  IF rest = <<>> THEN sorted
  ELSE sortFrom(insertSorted(sorted, Head(rest), attributeNames, otherAttributeNames),
                Tail(rest), attributeNames, otherAttributeNames)

sort(refinements, attributeNames, otherAttributeNames) ==
  sortFrom(<<>>, refinements, attributeNames, otherAttributeNames)

\* res.indexOf(refinement.attributeName === -1): the needle is the boolean false
\* (a string is never strictly equal to -1) and res holds strings only, so the
\* lookup returns -1; a number is truthy unless it is 0
alreadyCollectedCheck(res, attributeName) ==
  LET needle == [type |-> "boolean", value |-> "false"]
      tagged == [i \in 1..Len(res) |-> [type |-> "string", value |-> res[i]]]
  IN  indexOf(tagged, needle) # 0

\* the reduce of lines 171-176
RECURSIVE collectOtherAttributeNames(_, _, _)
collectOtherAttributeNames(res, refinements, attributeNames) ==
  IF refinements = <<>> THEN res
  ELSE LET attributeName == Head(refinements).attributeName
       IN  collectOtherAttributeNames(
             IF indexOf(attributeNames, attributeName) = -1
                /\ alreadyCollectedCheck(res, attributeName)
             THEN Append(res, attributeName)
             ELSE res,
             Tail(refinements), attributeNames)

\* variant: the filter applied without the isEmpty(attributeNames) test
getFilteredRefinementsNoEmptyCheck(results, state, attributeNames, onlyListedAttributes) ==
  LET refinements == getRefinements(results, state)
      otherAttributeNames == collectOtherAttributeNames(<<>>, refinements, attributeNames)
      sorted == sort(refinements, attributeNames, otherAttributeNames)
  IN  IF onlyListedAttributes
      THEN SelectSeq(sorted, LAMBDA r : indexOf(attributeNames, r.attributeName) # -1)
      ELSE sorted

getFilteredRefinements(results, state, attributeNames, onlyListedAttributes) ==
  LET refinements == getRefinements(results, state)
      otherAttributeNames == collectOtherAttributeNames(<<>>, refinements, attributeNames)
      sorted == sort(refinements, attributeNames, otherAttributeNames)
  IN  IF onlyListedAttributes /\ ~isEmpty(attributeNames)
      THEN SelectSeq(sorted, LAMBDA r : indexOf(attributeNames, r.attributeName) # -1)
      ELSE sorted

(***************************************************************************)
(* clearRefinementFromState: the state operation chosen by the type.       *)
(* The result records the operations invoked on the state, the returned    *)
(* state and whether the function threw.                                   *)
(***************************************************************************)
Invoked(op, args, state) ==
  [threw |-> FALSE, ops |-> <<[op |-> op, args |-> args]>>, state |-> state]

\* variant: the exclude case calling the facet removal
clearRefinementFromStateExcludeAsFacet(state, refinement) ==
  CASE refinement.type = "facet" ->
         Invoked("removeFacetRefinement", <<refinement.attributeName, refinement.name>>,
                 removeFacetRefinement(state, refinement.attributeName, refinement.name))
    [] refinement.type = "disjunctive" ->
         Invoked("removeDisjunctiveFacetRefinement",
                 <<refinement.attributeName, refinement.name>>,
                 removeDisjunctiveFacetRefinement(state, refinement.attributeName,
                                                  refinement.name))
    [] refinement.type = "hierarchical" ->
         Invoked("clearRefinements", <<refinement.attributeName>>,
                 clearRefinements(state, refinement.attributeName))
    [] refinement.type = "exclude" ->
         Invoked("removeFacetRefinement", <<refinement.attributeName, refinement.name>>,
                 removeFacetRefinement(state, refinement.attributeName, refinement.name))
    [] refinement.type = "numeric" ->
         Invoked("removeNumericRefinement",
                 <<refinement.attributeName, refinement.operator, refinement.numericValue>>,
                 removeNumericRefinement(state, refinement.attributeName,
                                         refinement.operator, refinement.numericValue))
    [] refinement.type = "tag" ->
         Invoked("removeTagRefinement", <<refinement.name>>,
                 removeTagRefinement(state, refinement.name))
    [] OTHER ->
         [threw |-> TRUE, ops |-> <<>>, state |-> state]

clearRefinementFromState(state, refinement) ==
  CASE refinement.type = "facet" ->
         Invoked("removeFacetRefinement", <<refinement.attributeName, refinement.name>>,
                 removeFacetRefinement(state, refinement.attributeName, refinement.name))
    [] refinement.type = "disjunctive" ->
         Invoked("removeDisjunctiveFacetRefinement",
                 <<refinement.attributeName, refinement.name>>,
                 removeDisjunctiveFacetRefinement(state, refinement.attributeName,
                                                  refinement.name))
    [] refinement.type = "hierarchical" ->
         Invoked("clearRefinements", <<refinement.attributeName>>,
                 clearRefinements(state, refinement.attributeName))
    [] refinement.type = "exclude" ->
         Invoked("removeExcludeRefinement", <<refinement.attributeName, refinement.name>>,
                 removeExcludeRefinement(state, refinement.attributeName, refinement.name))
    [] refinement.type = "numeric" ->
         Invoked("removeNumericRefinement",
                 <<refinement.attributeName, refinement.operator, refinement.numericValue>>,
                 removeNumericRefinement(state, refinement.attributeName,
                                         refinement.operator, refinement.numericValue))
    [] refinement.type = "tag" ->
         Invoked("removeTagRefinement", <<refinement.name>>,
                 removeTagRefinement(state, refinement.name))
    [] OTHER ->
         [threw |-> TRUE, ops |-> <<>>, state |-> state]

(***************************************************************************)
(* JavaScript values of the widget options, by type.                       *)
(***************************************************************************)
Undefined == [type |-> "undefined"]
Null == [type |-> "null"]
Function == [type |-> "function"]
Number == [type |-> "number"]
String(value) == [type |-> "string", value |-> value]
Boolean(value) == [type |-> "boolean", value |-> value]
Array(items) == [type |-> "array", items |-> items]

\* an object with the four fields the validation reads; plain is FALSE for an
\* instance of a class
AttributeObject(plain, name, label, template, transformData) ==
  [type |-> "object", plain |-> plain, name |-> name, label |-> label,
   template |-> template, transformData |-> transformData]

Attribute(name) == AttributeObject(TRUE, String(name), Undefined, Undefined, Undefined)

isUndefined(v) == v.type = "undefined"
isBoolean(v) == v.type = "boolean"
isString(v) == v.type = "string"
isArray(v) == v.type = "array"
isFunction(v) == v.type = "function"
isPlainObject(v) == v.type = "object" /\ v.plain

\* the callback of the reduce of lines 78-87
\* variant: the label of an attribute left unchecked
attributeOKNoLabelCheck(val) ==
  /\ isPlainObject(val)
  /\ isString(val.name)
  /\ (isUndefined(val.template) \/ isString(val.template) \/ isFunction(val.template))
  /\ (isUndefined(val.transformData) \/ isFunction(val.transformData))

attributeOK(val) ==
  /\ isPlainObject(val)
  /\ isString(val.name)
  /\ (isUndefined(val.label) \/ isString(val.label))
  /\ (isUndefined(val.template) \/ isString(val.template) \/ isFunction(val.template))
  /\ (isUndefined(val.transformData) \/ isFunction(val.transformData))

\* the destructuring defaults of line 76
defaulted(v, default) == IF isUndefined(v) THEN default ELSE v

attributesOK(attributes) ==
  /\ isArray(attributes)
  /\ \A i \in 1..Len(attributes.items) : attributeOK(attributes.items[i])

showUsage(params) ==
  LET attributes == defaulted(params.attributes, Array(<<>>))
      onlyListedAttributes == defaulted(params.onlyListedAttributes, Boolean(FALSE))
  IN  \/ ~isArray(attributes)
      \/ ~attributesOK(attributes)
      \/ ~isBoolean(onlyListedAttributes)

\* map(attributes, attribute => attribute.name)
attributeNamesOf(params) ==
  LET attributes == defaulted(params.attributes, Array(<<>>))
  IN  [i \in 1..Len(attributes.items) |-> attributes.items[i].name.value]

onlyListedAttributesOf(params) ==
  defaulted(params.onlyListedAttributes, Boolean(FALSE)).value

\* variant: restrictedTo empty whatever onlyListedAttributes is
restrictedToUnrestricted(attributeNames, onlyListedAttributes) == <<>>

restrictedToOf(attributeNames, onlyListedAttributes) ==
  IF onlyListedAttributes THEN attributeNames ELSE <<>>

\* attributesObj: the attributes by name, a later entry replacing an earlier one
attributesObjOf(params) ==
  LET attributes == defaulted(params.attributes, Array(<<>>)).items
  IN  [n \in {attributes[i].name.value : i \in 1..Len(attributes)} |->
         attributes[CHOOSE i \in 1..Len(attributes) :
                      /\ attributes[i].name.value = n
                      /\ \A j \in (i + 1)..Len(attributes) : attributes[j].name.value # n]]

(***************************************************************************)
(* Inputs of the widget runs.                                              *)
(***************************************************************************)
HelperIds == {"h1", "h2"}

\* sequences over S without a repeated element, of length at most n
DistinctSeqs(S, n) ==
  {q \in UNION {[1..k -> S] : k \in 0..n} :
     \A i, j \in 1..Len(q) : i # j => q[i] # q[j]}

\* all sequences over S of length at most n
SeqsUpTo(S, n) == UNION {[1..k -> S] : k \in 0..n}

\* the refinements a helper state of the widget runs may hold, in the order the
\* state reports them (by kind: facet, exclude, disjunctive, hierarchical,
\* numeric, tag).  A facet may be refined and excluded at once, and a numeric
\* refinement needs no declaration, so it may be on a hierarchical attribute.
HostRefinements ==
  << Refinement("facet", "a", <<50>>),
     Refinement("exclude", "a", <<49>>),
     Refinement("disjunctive", "c", <<49, 50>>),
     Refinement("hierarchical", "b", <<49>>),
     NumericRefinement("b", ">=", 12),
     TagRefinement(<<49>>) >>

\* the subsequence of q at the positions in P
SubsequenceAt(q, P) ==
  LET F[i \in 0..Len(q)] ==
        IF i = 0 THEN <<>>
        ELSE IF i \in P THEN Append(F[i - 1], q[i]) ELSE F[i - 1]
  IN  F[Len(q)]

HostStates ==
  {SubsequenceAt(HostRefinements, P) :
     P \in {Q \in SUBSET (1..Len(HostRefinements)) : Cardinality(Q) <= MaxRefs}}

ConfiguredNames == {"a", "b"}

\* valid options: attributes with a name only, every name once
ListedParams ==
  {[attributes |-> Array([i \in 1..Len(names) |-> Attribute(names[i])]),
    onlyListedAttributes |-> Boolean(flag)] :
     names \in DistinctSeqs(ConfiguredNames, MaxAttrs), flag \in BOOLEAN}

\* attribute entries: the valid shapes and one violation of each check
AttributeShapes ==
  {Attribute(n) : n \in ConfiguredNames} \cup
  { AttributeObject(TRUE, String("a"), String("A"), String("t"), Function),
    AttributeObject(TRUE, String("b"), Undefined, Function, Undefined),
    AttributeObject(FALSE, String("a"), Undefined, Undefined, Undefined),
    AttributeObject(TRUE, Undefined, Undefined, Undefined, Undefined),
    AttributeObject(TRUE, Number, Undefined, Undefined, Undefined),
    AttributeObject(TRUE, String("a"), Number, Undefined, Undefined),
    AttributeObject(TRUE, String("a"), Null, Undefined, Undefined),
    AttributeObject(TRUE, String("a"), Undefined, Number, Undefined),
    AttributeObject(TRUE, String("a"), Undefined, Undefined, String("f")),
    String("a"), Null }

AnyParams ==
  {[attributes |-> attributes, onlyListedAttributes |-> flag] :
     attributes \in {Array(items) : items \in SeqsUpTo(AttributeShapes, MaxAttrs)}
                    \cup {Undefined, Null, String("a"), Attribute("a")},
     flag \in {Undefined, Boolean(TRUE), Boolean(FALSE), Null, String("true"), Number}}

(***************************************************************************)
(* The widget: construction, init, render and the triggers.                *)
(***************************************************************************)
NotConstructed == [status |-> "none"]
NotBound == [bound |-> FALSE]
NoView == [called |-> FALSE]
NoOp == [op |-> "none"]
NoCall == [fn |-> "none"]

\* clearRefinement.bind(null, helper, refinement)
BoundClearRefinement(helper, refinement) == [helper |-> helper, refinement |-> refinement]

\* clearRefinementsAndSearch.bind(null, helper, restrictedTo)
BoundClearAll(helper, restrictedTo) ==
  [bound |-> TRUE, helper |-> helper, restrictedTo |-> restrictedTo]

\* connectCurrentRefinedValues(renderFn)(widgetParams)
Construct ==
  /\ widget.status = "none"
  /\ fnArgs = NoCall
  /\ IF showUsage(widgetParams)
     THEN /\ widget' = [status |-> "failed"]
          /\ lastOp' = [op |-> "construct", threw |-> "usage", callbacks |-> 0]
     ELSE /\ widget' =
               [status |-> "built",
                attributeNames |-> attributeNamesOf(widgetParams),
                onlyListedAttributes |-> onlyListedAttributesOf(widgetParams),
                restrictedTo |-> restrictedToOf(attributeNamesOf(widgetParams),
                                                onlyListedAttributesOf(widgetParams)),
                attributesObj |-> attributesObjOf(widgetParams)]
          /\ lastOp' = [op |-> "construct", threw |-> "none", callbacks |-> 0]
  /\ UNCHANGED <<widgetParams, helperState, cached, view, initHelper, fnArgs, fnResult>>

\* the view model both passes hand to the render callback; helper and state
\* record the helper and the state of the pass (history, not passed on)
ViewModel(isFirstRendering, helper, state, clearAllClick) ==
  LET refinements == getFilteredRefinements("results", state, widget.attributeNames,
                                            widget.onlyListedAttributes)
  IN  [called |-> TRUE,
       isFirstRendering |-> isFirstRendering,
       attributes |-> widget.attributesObj,
       clearAllClick |-> clearAllClick,
       clearAllURL |-> createURL(clearRefinementsFromState(state, widget.restrictedTo)),
       clearRefinementClicks |->
         [i \in 1..Len(refinements) |-> BoundClearRefinement(helper, refinements[i])],
       clearRefinementURLs |->
         [i \in 1..Len(refinements) |->
            createURL(clearRefinementFromState(state, refinements[i]).state)],
       refinements |-> refinements,
       widgetParams |-> widgetParams,
       helper |-> helper,
       state |-> state]

\* clearRefinementFromState throws inside a pass: the callback is not reached
PassThrows(state) ==
  LET refinements == getFilteredRefinements("results", state, widget.attributeNames,
                                            widget.onlyListedAttributes)
  IN  \E i \in 1..Len(refinements) : clearRefinementFromState(state, refinements[i]).threw

\* init({helper, createURL, instantSearchInstance}); the host calls it once
InitPass(helper) ==
  /\ widget.status = "built"
  /\ initHelper = "none"
  /\ initHelper' = helper
  /\ cached' = BoundClearAll(helper, widget.restrictedTo)
  /\ IF PassThrows(helperState[helper])
     THEN /\ view' = view
          /\ lastOp' = [op |-> "init", threw |-> "unsupported", callbacks |-> 0]
     ELSE /\ view' = ViewModel(TRUE, helper, helperState[helper], cached')
          /\ lastOp' = [op |-> "init", threw |-> "none", callbacks |-> 1]
  /\ UNCHANGED <<widgetParams, widget, helperState, fnArgs, fnResult>>

\* variant: render binding the trigger again, to its own helper
renderCachedRebound(helper) == BoundClearAll(helper, widget.restrictedTo)

\* the value render leaves in this._clearRefinementsAndSearch: render only reads it
renderCached(helper) == cached

\* render({results, helper, state, createURL, instantSearchInstance})
RenderPass(helper, state) ==
  /\ widget.status = "built"
  /\ initHelper # "none"
  /\ cached' = renderCached(helper)
  /\ IF PassThrows(state)
     THEN /\ view' = view
          /\ lastOp' = [op |-> "render", threw |-> "unsupported", callbacks |-> 0]
     ELSE /\ view' = ViewModel(FALSE, helper, state, cached')
          /\ lastOp' = [op |-> "render", threw |-> "none", callbacks |-> 1]
  /\ UNCHANGED <<widgetParams, widget, helperState, initHelper, fnArgs, fnResult>>

\* helper.setState(newState).search()
SetStateAndSearch(newState) == <<[call |-> "setState", state |-> newState], [call |-> "search"]>>

\* variant: the new state computed from the state of the pass that built the trigger
clearRefinementFromPassState(helper, refinement) ==
  LET cleared == clearRefinementFromState(view.state, refinement)
  IN  IF cleared.threw
      THEN [threw |-> "unsupported", calls |-> <<>>, state |-> helperState[helper]]
      ELSE [threw |-> "none", calls |-> SetStateAndSearch(cleared.state),
            state |-> cleared.state]

\* clearRefinement(helper, refinement): the new state is computed from helper.state
clearRefinement(helper, refinement) ==
  LET cleared == clearRefinementFromState(helperState[helper], refinement)
  IN  IF cleared.threw
      THEN [threw |-> "unsupported", calls |-> <<>>, state |-> helperState[helper]]
      ELSE [threw |-> "none", calls |-> SetStateAndSearch(cleared.state),
            state |-> cleared.state]

\* lib/utils.js clearRefinementsAndSearch(helper, attributeNames)
clearRefinementsAndSearch(helper, attributeNames) ==
  LET cleared == clearRefinementsFromState(helperState[helper], attributeNames)
  IN  [threw |-> "none", calls |-> SetStateAndSearch(cleared), state |-> cleared]

\* the user triggers view.clearRefinementClicks[i]
ClearRefinementClick ==
  /\ view.called
  /\ \E i \in 1..Len(view.clearRefinementClicks) :
       LET click == view.clearRefinementClicks[i]
           done == clearRefinement(click.helper, click.refinement)
       IN  /\ helperState' = [helperState EXCEPT ![click.helper] = done.state]
           /\ lastOp' = [op |-> "clearRefinementClick", threw |-> done.threw,
                         callbacks |-> 0, helper |-> click.helper,
                         refinement |-> click.refinement,
                         before |-> helperState[click.helper], calls |-> done.calls]
  /\ UNCHANGED <<widgetParams, widget, cached, view, initHelper, fnArgs, fnResult>>

\* the user triggers view.clearAllClick
ClearAllClick ==
  /\ view.called
  /\ view.clearAllClick.bound
  /\ LET click == view.clearAllClick
         done == clearRefinementsAndSearch(click.helper, click.restrictedTo)
     IN  /\ helperState' = [helperState EXCEPT ![click.helper] = done.state]
         /\ lastOp' = [op |-> "clearAllClick", threw |-> done.threw, callbacks |-> 0,
                       helper |-> click.helper, restrictedTo |-> click.restrictedTo,
                       before |-> helperState[click.helper], calls |-> done.calls]
  /\ UNCHANGED <<widgetParams, widget, cached, view, initHelper, fnArgs, fnResult>>

InitWith(Params, States) ==
  /\ widgetParams \in Params
  /\ widget = NotConstructed
  /\ \E s \in States : helperState = [h \in HelperIds |-> s]
  /\ cached = NotBound
  /\ view = NoView
  /\ lastOp = NoOp
  /\ initHelper = "none"
  /\ fnArgs = NoCall
  /\ fnResult = NoCall

Init == InitWith(ListedParams, HostStates)

Next ==
  \/ Construct
  \/ \E h \in HelperIds : InitPass(h)
  \/ \E h, sh \in HelperIds : RenderPass(h, helperState[sh])
  \/ ClearRefinementClick
  \/ ClearAllClick

Spec == Init /\ [][Next]_vars

\* the same widget runs over every shape of the options
ShortStates == {s \in HostStates : Len(s) <= 1}

InitConfig == InitWith(AnyParams, ShortStates)

SpecConfig == InitConfig /\ [][Next]_vars

(***************************************************************************)
(* Direct calls of getFilteredRefinements and clearRefinementFromState.    *)
(***************************************************************************)
\* raw refinements: three names on one attribute, two refinements that tie on
\* (attributeName, name), a numeric name
RawRefinements ==
  { Refinement("facet", "a", <<49>>), Refinement("facet", "a", <<49, 50>>),
    Refinement("facet", "a", <<50>>), Refinement("facet", "b", <<50>>),
    Refinement("disjunctive", "b", <<49>>), Refinement("facet", "c", <<49>>),
    Refinement("exclude", "c", <<49>>), NumericRefinement("b", ">=", 12) }

FilterCalls ==
  {[fn |-> "getFilteredRefinements", state |-> raw, attributeNames |-> names,
    onlyListedAttributes |-> flag] :
     raw \in DistinctSeqs(RawRefinements, MaxRaw),
     names \in SeqsUpTo(AttributeNameSet, MaxAttrs),
     flag \in BOOLEAN}

\* refinements to clear: the ones of the host states, the same with another
\* operator or value, and two with a type the switch does not know
ClearableRefinements ==
  {HostRefinements[i] : i \in 1..Len(HostRefinements)} \cup
  { NumericRefinement("b", "<=", 12), NumericRefinement("b", ">=", 1),
    Refinement("facet", "a", <<49>>), Refinement("exclude", "a", <<50>>),
    Refinement("range", "a", <<50>>), Refinement("Facet", "a", <<50>>) }

ClearCalls ==
  {[fn |-> "clearRefinementFromState", state |-> state, refinement |-> refinement] :
     state \in HostStates, refinement \in ClearableRefinements}

CallGetFilteredRefinements ==
  /\ fnArgs.fn = "getFilteredRefinements"
  /\ fnResult = NoCall
  /\ fnResult' = [fn |-> fnArgs.fn,
                  refinements |-> getFilteredRefinements("results", fnArgs.state,
                                    fnArgs.attributeNames, fnArgs.onlyListedAttributes)]
  /\ UNCHANGED <<widgetParams, widget, helperState, cached, view, lastOp, initHelper, fnArgs>>

CallClearRefinementFromState ==
  /\ fnArgs.fn = "clearRefinementFromState"
  /\ fnResult = NoCall
  /\ LET done == clearRefinementFromState(fnArgs.state, fnArgs.refinement)
     IN  fnResult' = [fn |-> fnArgs.fn, threw |-> done.threw, ops |-> done.ops,
                      state |-> done.state]
  /\ UNCHANGED <<widgetParams, widget, helperState, cached, view, lastOp, initHelper, fnArgs>>

InitFn ==
  /\ widgetParams = [attributes |-> Undefined, onlyListedAttributes |-> Undefined]
  /\ widget = NotConstructed
  /\ helperState = [h \in HelperIds |-> <<>>]
  /\ cached = NotBound
  /\ view = NoView
  /\ lastOp = NoOp
  /\ initHelper = "none"
  /\ fnArgs \in FilterCalls \cup ClearCalls
  /\ fnResult = NoCall

NextFn ==
  \/ CallGetFilteredRefinements
  \/ CallClearRefinementFromState

SpecFn == InitFn /\ [][NextFn]_vars

(***************************************************************************)
(* Properties.                                                             *)
(***************************************************************************)
IsConfigured(names, attributeName) == \E i \in 1..Len(names) : names[i] = attributeName

\* 1-based position of the first occurrence of x in q
FirstPosition(q, x) == CHOOSE i \in 1..Len(q) : q[i] = x /\ \A j \in 1..(i - 1) : q[j] # x

\* 1-based position of the first raw refinement on the attribute
FirstSeen(raw, attributeName) ==
  FirstPosition([i \in 1..Len(raw) |-> raw[i].attributeName], attributeName)

Elements(q) == {q[i] : i \in 1..Len(q)}

FilterCalled == fnResult.fn = "getFilteredRefinements"

\* C1: the refinements getFilteredRefinements returns (the list init and render
\* deliver) are ordered by attribute: refinements on configured attributes come
\* before refinements on unconfigured ones, configured attributes follow the
\* configured order, and unconfigured attributes follow the order in which each
\* attribute name first occurs in the raw list.
C1_AttributeOrder ==
  FilterCalled =>
    LET out == fnResult.refinements
        names == fnArgs.attributeNames
        raw == fnArgs.state
    IN  \A i, j \in 1..Len(out) :
          i < j =>
            LET x == out[i].attributeName
                y == out[j].attributeName
            IN  /\ IsConfigured(names, y) => IsConfigured(names, x)
                /\ (IsConfigured(names, x) /\ IsConfigured(names, y)) =>
                     FirstPosition(names, x) <= FirstPosition(names, y)
                /\ (~IsConfigured(names, x) /\ ~IsConfigured(names, y)) =>
                     FirstSeen(raw, x) <= FirstSeen(raw, y)

\* attributes ["b","a"] configured, the raw list starts with the unconfigured "c",
\* and the output is ordered b, a, c
C1_Witness ==
  /\ FilterCalled
  /\ fnArgs.attributeNames = <<"b", "a">>
  /\ Len(fnArgs.state) = 3
  /\ fnArgs.state[1].attributeName = "c"
  /\ [i \in 1..Len(fnResult.refinements) |-> fnResult.refinements[i].attributeName]
       = <<"b", "a", "c">>

\* C2: in the output of getFilteredRefinements the refinements of one attribute
\* are adjacent and ordered by name ascending, code unit by code unit.
C2_NameOrder ==
  FilterCalled =>
    LET out == fnResult.refinements
    IN  \A i, j \in 1..Len(out) :
          (i < j /\ out[i].attributeName = out[j].attributeName) =>
            /\ ~StringLess(out[j].name, out[i].name)
            /\ \A k \in i..j : out[k].attributeName = out[i].attributeName

\* the raw list holds "2" before "12" on one attribute, the output "12" before "2"
C2_Witness ==
  /\ FilterCalled
  /\ \E i, j \in 1..Len(fnArgs.state) :
       /\ i < j
       /\ fnArgs.state[i] = Refinement("facet", "a", <<50>>)
       /\ fnArgs.state[j] = Refinement("facet", "a", <<49, 50>>)
  /\ \E i, j \in 1..Len(fnResult.refinements) :
       /\ i < j
       /\ fnResult.refinements[i] = Refinement("facet", "a", <<49, 50>>)
       /\ fnResult.refinements[j] = Refinement("facet", "a", <<50>>)

\* the options as the claims read them
OptionNames ==
  IF isArray(widgetParams.attributes)
  THEN [i \in 1..Len(widgetParams.attributes.items) |->
          widgetParams.attributes.items[i].name.value]
  ELSE <<>>

OptionOnlyListed == widgetParams.onlyListedAttributes = Boolean(TRUE)

\* C3: the refinements delivered to the render callback are, when
\* onlyListedAttributes is true and the attribute list is not empty, exactly the
\* raw refinements on a configured attribute, in their sorted order; in every
\* other case exactly all raw refinements.
C3_Filter ==
  view.called =>
    LET out == view.refinements
        raw == view.state
        kept == IF OptionOnlyListed /\ OptionNames # <<>>
                THEN {r \in Elements(raw) : IsConfigured(OptionNames, r.attributeName)}
                ELSE Elements(raw)
    IN  /\ Elements(out) = kept
        /\ Len(out) = Cardinality(kept)
        /\ out = SelectSeq(getFilteredRefinements("results", raw, OptionNames, FALSE),
                           LAMBDA r : r \in kept)

\* a filtering pass that drops one refinement and keeps another
C3_Witness ==
  /\ view.called
  /\ OptionOnlyListed
  /\ OptionNames # <<>>
  /\ Len(view.refinements) >= 1
  /\ Len(view.refinements) < Len(view.state)

\* the state without the refinement r and with every other refinement
WithoutOnly(state, r) == SelectSeq(state, LAMBDA x : x # r)

\* C4: in every view model the three arrays have the same length, the URL at
\* index i is createURL of the pass's state with refinements[i] cleared, and the
\* trigger at index i clears refinements[i], and no other refinement, on the
\* pass's helper.
C4_Aligned ==
  /\ view.called =>
       /\ Len(view.clearRefinementURLs) = Len(view.refinements)
       /\ Len(view.clearRefinementClicks) = Len(view.refinements)
       /\ \A i \in 1..Len(view.refinements) :
            /\ view.clearRefinementURLs[i]
                 = createURL(WithoutOnly(view.state, view.refinements[i]))
            /\ view.clearRefinementClicks[i].helper = view.helper
            /\ view.clearRefinementClicks[i].refinement = view.refinements[i]
  /\ lastOp.op = "clearRefinementClick" =>
       helperState[lastOp.helper] = WithoutOnly(lastOp.before, lastOp.refinement)

\* C5: clearRefinementFromState invokes exactly one state operation, the one of
\* the refinement's type with the arguments of the table; for any other type it
\* throws, invokes no operation and returns no changed state.
ExpectedOperation(r) ==
  CASE r.type = "facet" ->
         [op |-> "removeFacetRefinement", args |-> <<r.attributeName, r.name>>]
    [] r.type = "disjunctive" ->
         [op |-> "removeDisjunctiveFacetRefinement", args |-> <<r.attributeName, r.name>>]
    [] r.type = "hierarchical" ->
         [op |-> "clearRefinements", args |-> <<r.attributeName>>]
    [] r.type = "exclude" ->
         [op |-> "removeExcludeRefinement", args |-> <<r.attributeName, r.name>>]
    [] r.type = "numeric" ->
         [op |-> "removeNumericRefinement",
          args |-> <<r.attributeName, r.operator, r.numericValue>>]
    [] r.type = "tag" ->
         [op |-> "removeTagRefinement", args |-> <<r.name>>]

C5_Dispatch ==
  fnResult.fn = "clearRefinementFromState" =>
    IF fnArgs.refinement.type \in RefinementTypes
    THEN /\ ~fnResult.threw
         /\ fnResult.ops = <<ExpectedOperation(fnArgs.refinement)>>
    ELSE /\ fnResult.threw
         /\ fnResult.ops = <<>>
         /\ fnResult.state = fnArgs.state

\* a numeric refinement removed with its attribute, operator and value
C5_Witness ==
  /\ fnResult.fn = "clearRefinementFromState"
  /\ fnArgs.refinement = NumericRefinement("b", ">=", 12)
  /\ fnResult.ops[1].args = <<"b", ">=", 12>>
  /\ Len(fnResult.state) < Len(fnArgs.state)

\* C6: a per-refinement trigger computes the new state from the helper's state
\* at the moment of the trigger, makes the helper adopt it with one setState,
\* then runs one search, and does not invoke the render callback.
C6_ClickSequence ==
  (lastOp.op = "clearRefinementClick" /\ lastOp.threw = "none") =>
    LET newState == clearRefinementFromState(lastOp.before, lastOp.refinement).state
    IN  /\ lastOp.calls = <<[call |-> "setState", state |-> newState], [call |-> "search"]>>
        /\ helperState[lastOp.helper] = newState
        /\ lastOp.callbacks = 0

\* a trigger of a view whose pass state is no longer the helper's state, with a
\* result the pass state would not have given
C6_Witness ==
  /\ lastOp.op = "clearRefinementClick"
  /\ lastOp.before # view.state
  /\ lastOp.helper = view.helper
  /\ helperState[lastOp.helper] # lastOp.before
  /\ helperState[lastOp.helper]
       # clearRefinementFromState(view.state, lastOp.refinement).state

\* C7: construction succeeds for every valid configuration and fails with the
\* usage error for every other one; the usage error is raised by construction
\* only, and a failed construction never reaches the render callback.
ValidAttribute(e) ==
  /\ e.type = "object" /\ e.plain
  /\ e.name.type = "string"
  /\ e.label.type \in {"undefined", "string"}
  /\ e.template.type \in {"undefined", "string", "function"}
  /\ e.transformData.type \in {"undefined", "function"}

ValidParams(p) ==
  /\ \/ p.attributes.type = "undefined"
     \/ /\ p.attributes.type = "array"
        /\ \A i \in 1..Len(p.attributes.items) : ValidAttribute(p.attributes.items[i])
  /\ p.onlyListedAttributes.type \in {"undefined", "boolean"}

C7_Construction ==
  /\ widget.status = "built" => ValidParams(widgetParams)
  /\ widget.status = "failed" =>
       /\ ~ValidParams(widgetParams)
       /\ lastOp = [op |-> "construct", threw |-> "usage", callbacks |-> 0]
       /\ ~view.called
  /\ lastOp.op \in {"init", "render", "clearRefinementClick", "clearAllClick"} =>
       lastOp.threw # "usage"

\* a construction that fails on the shape of an attribute entry alone
C7_Witness ==
  /\ widget.status = "failed"
  /\ isArray(widgetParams.attributes)
  /\ isBoolean(widgetParams.onlyListedAttributes)

\* C8: when the refinement list of a pass is empty, the pass's clearAllURL is
\* createURL of the pass's unmodified state.
C8_EmptyClearAll ==
  (view.called /\ view.refinements = <<>>) => view.clearAllURL = createURL(view.state)

\* an empty list delivered while the state holds refinements on unlisted attributes
C8_Witness ==
  /\ view.called
  /\ view.refinements = <<>>
  /\ view.state # <<>>
  /\ OptionOnlyListed
  /\ OptionNames # <<>>

\* C9: the clearAllClick of every pass is the trigger built at init: it is bound
\* to the helper given to init and to the allowlist (the configured names when
\* onlyListedAttributes is true, empty otherwise), and triggering it runs the
\* bulk clear and one search on that helper, whatever helper render received.
OptionAllowlist == IF OptionOnlyListed THEN OptionNames ELSE <<>>

C9_ClearAllTrigger ==
  /\ view.called =>
       /\ view.clearAllClick = BoundClearAll(initHelper, OptionAllowlist)
       /\ cached = view.clearAllClick
  /\ lastOp.op = "clearAllClick" =>
       /\ lastOp.helper = initHelper
       /\ lastOp.restrictedTo = OptionAllowlist
       /\ lastOp.calls =
            SetStateAndSearch(clearRefinementsFromState(lastOp.before, OptionAllowlist))
       /\ helperState[initHelper] = clearRefinementsFromState(lastOp.before, OptionAllowlist)

\* the trigger fired after a render pass that received another helper
C9_Witness ==
  /\ lastOp.op = "clearAllClick"
  /\ view.called
  /\ ~view.isFirstRendering
  /\ view.helper # initHelper
  /\ helperState[initHelper] # lastOp.before

\* the first-seen list of the unconfigured attribute names, each name once
RECURSIVE DeduplicatedOtherAttributeNames(_, _, _)
DeduplicatedOtherAttributeNames(res, refinements, attributeNames) ==
  IF refinements = <<>> THEN res
  ELSE LET attributeName == Head(refinements).attributeName
       IN  DeduplicatedOtherAttributeNames(
             IF ~IsConfigured(attributeNames, attributeName)
                /\ ~IsConfigured(res, attributeName)
             THEN Append(res, attributeName)
             ELSE res,
             Tail(refinements), attributeNames)

FilteredWithDeduplication(raw, attributeNames, onlyListedAttributes) ==
  LET other == DeduplicatedOtherAttributeNames(<<>>, raw, attributeNames)
      sorted == sort(raw, attributeNames, other)
  IN  IF onlyListedAttributes /\ attributeNames # <<>>
      THEN SelectSeq(sorted, LAMBDA r : IsConfigured(attributeNames, r.attributeName))
      ELSE sorted

\* C10: getFilteredRefinements, whose otherAttributeNames holds every occurrence
\* of an unconfigured attribute name, returns the sequence it would return with
\* the de-duplicated first-seen list of unconfigured attribute names.
C10_DuplicatesHarmless ==
  FilterCalled =>
    fnResult.refinements
      = FilteredWithDeduplication(fnArgs.state, fnArgs.attributeNames,
                                  fnArgs.onlyListedAttributes)

\* the collected list repeats a name and gives a later attribute another index
\* than the de-duplicated list does, and the sort reorders the raw list
C10_Witness ==
  /\ FilterCalled
  /\ LET collected == collectOtherAttributeNames(<<>>, fnArgs.state, fnArgs.attributeNames)
         unique == DeduplicatedOtherAttributeNames(<<>>, fnArgs.state, fnArgs.attributeNames)
     IN  /\ Len(collected) > Len(unique)
         /\ \E i \in 1..Len(unique) : indexOf(collected, unique[i]) # i - 1
  /\ fnResult.refinements # fnArgs.state

====
